---- MODULE Spec2Model ----
(***************************************************************************)
(* Model of the two pipeline components of sales-gpt-custom-component:     *)
(*   PandasExcelToDocument (converters/excel_converter.py) and             *)
(*   ExternalLinkAdder     (augmenters/link_adder.py).                     *)
(*                                                                         *)
(* Text is modelled as a sequence of one-character strings, so that        *)
(* slicing, searching and concatenation are computed as Python computes    *)
(* them.  A Python dict is a function whose DOMAIN is its key set.         *)
(***************************************************************************)
EXTENDS Integers, Sequences, FiniteSets, TLC

VARIABLES
    \* ---- PandasExcelToDocument.__init__ ----
    table_format,               \* self.table_format
    preserve_cell_identifiers,  \* self.preserve_cell_identifiers
    table_format_kwargs,        \* self.table_format_kwargs
    \* ---- PandasExcelToDocument._extract_tables ----
    bytestream,                 \* the workbook held by the ByteStream (sheets in order)
    tables,                     \* returned list of rendered tables
    tables_metadata,            \* returned list of {"sheet_name": key}
    epc,                        \* "call" | "returned" | "raised"
    \* ---- PandasExcelToDocument.run ----
    sources,                    \* argument sources
    meta,                       \* argument meta
    idx,                        \* 1-based position of the for loop in zip(sources, meta_list)
    documents,                  \* the list being built
    warnings,                   \* logger.warning calls, in order
    pc,                         \* "start" | "loop" | "returned" | "raised"
    \* ---- PandasExcelToDocument._generate_excel_column_names ----
    n_cols, i, num, col_name, result, cpc,
    \* ---- ExternalLinkAdder.run ----
    processed,                  \* number of answers of the batch already handled
    answer,                     \* the answer bound by "for answer in answers" (as passed in)
    data,                       \* answer.data (mutated in place)
    external_links,             \* external_links of the current iteration
    lpc                         \* "head" | "body" | "tail" | "returned" | "raised"

excel_cfg == <<table_format, preserve_cell_identifiers, table_format_kwargs>>
extract_vars == <<bytestream, tables, tables_metadata, epc>>
run_vars == <<sources, meta, idx, documents, warnings, pc>>
column_vars == <<n_cols, i, num, col_name, result, cpc>>
link_vars == <<processed, answer, data, external_links, lpc>>
vars == <<excel_cfg, extract_vars, run_vars, column_vars, link_vars>>

-----------------------------------------------------------------------------
(* Bounds of the model *)

MaxN == 703          \* largest n_cols given to _generate_excel_column_names
MaxSheets == 2       \* sheets per workbook (_extract_tables)
MaxCells == 3        \* cells (rows * columns, summed over the sheets) of a workbook
MaxSources == 2      \* sources per run() call
MaxRunSheets == 3    \* sheets per run() call, summed over the sources
MaxAnswers == 2      \* answers per ExternalLinkAdder.run() call
MaxRefs == 2         \* citations per answer
MaxDocs == 2         \* documents per answer

-----------------------------------------------------------------------------
(* Python helpers *)

None == "None"
EmptyDict == [k \in {} |-> None]

\* dict.get(key, default)
Get(d, key, default) == IF key \in DOMAIN d THEN d[key] ELSE default

\* {**a, **b}
Merge(a, b) ==
    [k \in (DOMAIN a) \cup (DOMAIN b) |-> IF k \in DOMAIN b THEN b[k] ELSE a[k]]

DigitChars == <<"0", "1", "2", "3", "4", "5", "6", "7", "8", "9">>
UpperCase == <<"A", "B", "C", "D", "E", "F", "G", "H", "I", "J", "K", "L", "M",
               "N", "O", "P", "Q", "R", "S", "T", "U", "V", "W", "X", "Y", "Z">>

\* chr(code) for the codes 65..90 the program produces
chr(code) == UpperCase[code - 64]

\* str(n) for n >= 0
RECURSIVE Str(_)
Str(n) == IF n < 10 THEN <<DigitChars[n + 1]>>
          ELSE Str(n \div 10) \o <<DigitChars[(n % 10) + 1]>>

\* the elements of s at the positions in keep, in order
RECURSIVE PickFrom(_, _, _)
PickFrom(s, keep, k) ==
    IF k > Len(s) THEN <<>>
    ELSE (IF k \in keep THEN <<s[k]>> ELSE <<>>) \o PickFrom(s, keep, k + 1)
Pick(s, keep) == PickFrom(s, keep, 1)

\* concatenation of a sequence of sequences
RECURSIVE Concat(_)
Concat(ss) == IF ss = <<>> THEN <<>> ELSE Head(ss) \o Concat(Tail(ss))

-----------------------------------------------------------------------------
(* PandasExcelToDocument._generate_excel_column_names *)

\* one iteration of "while num >= 0": the new (num, col_name)
WhileBodyNoBorrow(nm, name) ==
    [num |-> nm \div 26, col_name |-> <<chr((nm % 26) + 65)>> \o name]
WhileBody(nm, name) ==
    [num |-> (nm \div 26) - 1, col_name |-> <<chr((nm % 26) + 65)>> \o name]

RECURSIVE WhileLoop(_, _)
WhileLoop(nm, name) ==
    IF nm >= 0 THEN WhileLoop(WhileBody(nm, name).num, WhileBody(nm, name).col_name)
    ELSE name

\* the whole function, as the callers in _extract_tables use it
_generate_excel_column_names(n) == [k \in 1..n |-> WhileLoop(k - 1, <<>>)]

ColumnsInit ==
    /\ n_cols \in 0..MaxN
    /\ i = 0
    /\ num = -1
    /\ col_name = <<>>
    /\ result = <<>>
    /\ cpc = "for"

\* for i in range(n_cols): col_name = ''; num = i
ForNext ==
    /\ cpc = "for"
    /\ i < n_cols
    /\ col_name' = <<>>
    /\ num' = i
    /\ cpc' = "while"
    /\ UNCHANGED <<n_cols, i, result>>
    /\ UNCHANGED <<excel_cfg, extract_vars, run_vars, link_vars>>

\* while num >= 0: col_name = chr(num % 26 + 65) + col_name; num = num // 26 - 1
WhileStep ==
    /\ cpc = "while"
    /\ num >= 0
    /\ col_name' = WhileBody(num, col_name).col_name
    /\ num' = WhileBody(num, col_name).num
    /\ UNCHANGED <<n_cols, i, result, cpc>>
    /\ UNCHANGED <<excel_cfg, extract_vars, run_vars, link_vars>>

\* result.append(col_name), and the for loop advances
AppendName ==
    /\ cpc = "while"
    /\ num < 0
    /\ result' = Append(result, col_name)
    /\ i' = i + 1
    /\ cpc' = "for"
    /\ UNCHANGED <<n_cols, num, col_name>>
    /\ UNCHANGED <<excel_cfg, extract_vars, run_vars, link_vars>>

\* return result
ReturnNames ==
    /\ cpc = "for"
    /\ i >= n_cols
    /\ cpc' = "return"
    /\ UNCHANGED <<n_cols, i, num, col_name, result>>
    /\ UNCHANGED <<excel_cfg, extract_vars, run_vars, link_vars>>

ColumnsNext == ForNext \/ WhileStep \/ AppendName \/ ReturnNames

-----------------------------------------------------------------------------
(* Workbooks and DataFrames *)

\* A sheet as pd.read_excel sees it: nrows x ncols cells, of which `filled`
\* hold a value and the others are read as NaN.  A filled cell's value is
\* the text of its own spreadsheet reference ("B2"), so that a rendered
\* value tells where it came from.
NaN == <<"NaN">>
CellRef(r, c) == <<UpperCase[c]>> \o Str(r)
CellValue(sheet, r, c) == IF <<r, c>> \in sheet.filled THEN CellRef(r, c) ELSE NaN

EmptySheet == [nrows |-> 0, ncols |-> 0, filled |-> {}]
Area(sheet) == sheet.nrows * sheet.ncols

\* the sheets of at most a cells
Sheets(a) ==
    {EmptySheet} \cup
    UNION {{[nrows |-> rc[1], ncols |-> rc[2], filled |-> f] :
               f \in SUBSET ((1..rc[1]) \X (1..rc[2]))} :
           rc \in {x \in (1..a) \X (1..a) : x[1] * x[2] <= a}}

\* the sheet lists of at most k sheets and at most a cells in all
RECURSIVE SheetLists(_, _)
SheetLists(k, a) ==
    IF k = 0 THEN {<<>>}
    ELSE {<<>>} \cup
         UNION {{<<g>> \o w : w \in SheetLists(k - 1, a - Area(g))} : g \in Sheets(a)}

\* an .xlsx workbook holds at least one sheet
Workbooks(k, a) == {w \in SheetLists(k, a) : Len(w) >= 1}

\* the keys of df_dict, in workbook order
SheetNames == <<"Sheet1", "Sheet2", "Sheet3", "Sheet4">>

\* a positional (RangeIndex) column label and a named one
PosLabel(k) == [pos |-> k]
NameLabel(name) == [name |-> name]
LabelText(l) == IF "pos" \in DOMAIN l THEN Str(l.pos) ELSE l.name

\* pd.read_excel(header=None): RangeIndex rows and columns, row 0 is data
read_excel(sheet) ==
    [index   |-> [r \in 1..sheet.nrows |-> r - 1],
     columns |-> [c \in 1..sheet.ncols |-> PosLabel(c - 1)],
     values  |-> [r \in 1..sheet.nrows |->
                     [c \in 1..sheet.ncols |-> CellValue(sheet, r, c)]]]

NRows(df) == Len(df.index)
NCols(df) == Len(df.columns)

\* the columns / rows holding at least one value
ValueColumns(df) == {c \in 1..NCols(df) : \E r \in 1..NRows(df) : df.values[r][c] # NaN}
ValueRows(df) == {r \in 1..NRows(df) : \E c \in 1..NCols(df) : df.values[r][c] # NaN}

\* df.dropna(axis=1, how="all", ignore_index=True): the all-NaN columns go,
\* the kept columns keep their labels; ignore_index=True relabels result.index
\* (the row labels) 0..n-1 whatever the axis
dropna_columns_relabelled(df) ==
    [index   |-> df.index,
     columns |-> [c \in 1..Cardinality(ValueColumns(df)) |-> PosLabel(c - 1)],
     values  |-> [r \in 1..NRows(df) |-> Pick(df.values[r], ValueColumns(df))]]
dropna_columns(df) ==
    [index   |-> [r \in 1..NRows(df) |-> r - 1],
     columns |-> Pick(df.columns, ValueColumns(df)),
     values  |-> [r \in 1..NRows(df) |-> Pick(df.values[r], ValueColumns(df))]]

\* df.dropna(axis=0, how="all", ignore_index=True)
dropna_rows(df) ==
    [index   |-> [r \in 1..Cardinality(ValueRows(df)) |-> r - 1],
     columns |-> df.columns,
     values  |-> Pick(df.values, ValueRows(df))]

\* df.index = df.index + 1; df.columns = header
WithCellIdentifiers(df) ==
    [index   |-> [r \in 1..NRows(df) |-> df.index[r] + 1],
     columns |-> [c \in 1..NCols(df) |->
                     NameLabel(_generate_excel_column_names(NCols(df))[c])],
     values  |-> df.values]

\* the body of the first loop of _extract_tables for one sheet: df_dict[key]
TrimmedFrame(sheet, preserve) ==
    dropna_rows(dropna_columns(
        IF preserve THEN WithCellIdentifiers(read_excel(sheet)) ELSE read_excel(sheet)))

-----------------------------------------------------------------------------
(* Rendering: a table is the list of its lines, a line the list of its fields *)

\* values of the header option: False and () | True and "keys" | a list of labels
HeaderOff == [kind |-> "off"]
HeaderKeys == [kind |-> "keys"]
HeaderList(labels) == [kind |-> "list", labels |-> labels]

CsvField(v) == IF v = NaN THEN <<>> ELSE v
MarkdownField(v) == IF v = NaN THEN <<"n", "a", "n">> ELSE v

HeaderLabels(df, header) ==
    IF header.kind = "list" THEN header.labels
    ELSE [c \in 1..NCols(df) |-> LabelText(df.columns[c])]

\* DataFrame.to_csv(index=..., header=...)
to_csv(df, index, header) ==
    (IF header.kind = "off" THEN <<>>
     ELSE <<(IF index THEN << <<>> >> ELSE <<>>) \o HeaderLabels(df, header)>>)
    \o [r \in 1..NRows(df) |->
           (IF index THEN <<Str(df.index[r])>> ELSE <<>>)
           \o [c \in 1..NCols(df) |-> CsvField(df.values[r][c])]]

\* tabulate's handling of a header list: padded on the left with empty
\* headers up to the number of columns, cut to the number of columns when
\* there are rows
AlignHeaders(headers, rows) ==
    IF rows = <<>> THEN headers
    ELSE LET ncols == Len(rows[1])
             padded == [k \in 1..(IF Len(headers) < ncols THEN ncols - Len(headers) ELSE 0)
                           |-> <<>>] \o headers
         IN  SubSeq(padded, 1, ncols)

\* DataFrame.to_markdown(index=..., headers=..., tablefmt="pipe")
to_markdown(df, index, headers) ==
    LET rows == [r \in 1..NRows(df) |->
                    (IF index THEN <<Str(df.index[r])>> ELSE <<>>)
                    \o [c \in 1..NCols(df) |-> MarkdownField(df.values[r][c])]]
    IN  (IF headers.kind = "off" \/ HeaderLabels(df, headers) = <<>> THEN <<>>
         ELSE <<AlignHeaders(HeaderLabels(df, headers), rows)>>)
        \o rows

-----------------------------------------------------------------------------
(* PandasExcelToDocument._extract_tables *)

Formats == {"csv", "markdown", "xml"}
Supported(fmt) == fmt \in {"csv", "markdown"}

\* table_format_kwargs: any of the renderer's index and header options
\* ("header" stands for to_csv's header and to_markdown's headers)
KwargsSet ==
    {Merge(a, b) : a \in {EmptyDict} \cup {[index |-> v] : v \in BOOLEAN},
                   b \in {EmptyDict} \cup {[header |-> h] : h \in {HeaderOff, HeaderKeys}}}

\* keep_index and out_header as the first loop leaves them: set before the
\* loop, overwritten in every iteration when preserve_cell_identifiers is set
RECURSIVE FirstLoop(_, _, _, _, _)
FirstLoop(wb, k, fmt, preserve, flags) ==
    IF k > Len(wb) THEN flags
    ELSE FirstLoop(wb, k + 1, fmt, preserve,
             IF preserve
             THEN [keep_index |-> TRUE,
                   out_header |-> IF fmt = "csv" THEN HeaderKeys
                                  ELSE HeaderList(_generate_excel_column_names(wb[k].ncols))]
             ELSE flags)

RenderFlags(wb, fmt, preserve) ==
    FirstLoop(wb, 1, fmt, preserve, [keep_index |-> FALSE, out_header |-> HeaderOff])

\* resolved_kwargs = {"index": keep_index, "header": out_header, **self.table_format_kwargs}
resolved_kwargs(flags, kwargs) ==
    Merge([index |-> flags.keep_index, header |-> flags.out_header], kwargs)

\* the table appended for one sheet in the second loop
RenderedTable(wb, k, fmt, preserve, kwargs) ==
    LET df == TrimmedFrame(wb[k], preserve)
        kw == resolved_kwargs(RenderFlags(wb, fmt, preserve), kwargs)
    IN  IF fmt = "csv" THEN to_csv(df, kw["index"], kw["header"])
        ELSE to_markdown(df, kw["index"], kw["header"])

\* the second loop raises ValueError at the first sheet of an unsupported format
ExtractRaises(wb, fmt) == ~Supported(fmt) /\ Len(wb) >= 1

ExtractedTables(wb, fmt, preserve, kwargs) ==
    [k \in 1..Len(wb) |-> RenderedTable(wb, k, fmt, preserve, kwargs)]
ExtractedMetadata(wb) == [k \in 1..Len(wb) |-> [sheet_name |-> SheetNames[k]]]

ColumnsIdle ==
    /\ n_cols = 0 /\ i = 0 /\ num = -1 /\ col_name = <<>> /\ result = <<>> /\ cpc = "idle"
RunIdle ==
    /\ sources = <<>> /\ meta = None /\ idx = 1 /\ documents = <<>> /\ warnings = <<>>
    /\ pc = "idle"
LinksIdle ==
    /\ processed = 0 /\ answer = None /\ data = <<>> /\ external_links = <<>> /\ lpc = "idle"
ExtractIdle ==
    /\ bytestream = <<>> /\ tables = <<>> /\ tables_metadata = <<>> /\ epc = "idle"

ExtractInit ==
    /\ table_format \in Formats
    /\ preserve_cell_identifiers \in BOOLEAN
    /\ table_format_kwargs \in KwargsSet
    /\ bytestream \in Workbooks(MaxSheets, MaxCells)
    /\ tables = <<>>
    /\ tables_metadata = <<>>
    /\ epc = "call"
    /\ RunIdle /\ ColumnsIdle /\ LinksIdle

\* return tables, metadata
ExtractReturn ==
    /\ epc = "call"
    /\ ~ExtractRaises(bytestream, table_format)
    /\ tables' = ExtractedTables(bytestream, table_format, preserve_cell_identifiers,
                                 table_format_kwargs)
    /\ tables_metadata' = ExtractedMetadata(bytestream)
    /\ epc' = "returned"
    /\ UNCHANGED <<bytestream, excel_cfg, run_vars, column_vars, link_vars>>

\* raise ValueError("Unsupported export format: ...")
ExtractRaise ==
    /\ epc = "call"
    /\ ExtractRaises(bytestream, table_format)
    /\ epc' = "raised"
    /\ UNCHANGED <<bytestream, tables, tables_metadata, excel_cfg, run_vars, column_vars,
                   link_vars>>

ExtractNext == ExtractReturn \/ ExtractRaise

SpecExtract == ExtractInit /\ [][ExtractNext]_vars

ColumnsAll == ColumnsInit /\ ExtractIdle /\ RunIdle /\ LinksIdle
             /\ table_format = "csv" /\ preserve_cell_identifiers = FALSE
             /\ table_format_kwargs = EmptyDict
SpecColumns == ColumnsAll /\ [][ColumnsNext]_vars

-----------------------------------------------------------------------------
(* What the claims about _extract_tables speak of *)

\* the value of a column label in bijective base 26 (A = 1 .. Z = 26), less
\* one: the 0-based column index the label stands for
LetterValue(ch) == IF \E k \in 1..26 : UpperCase[k] = ch
                   THEN CHOOSE k \in 1..26 : UpperCase[k] = ch ELSE 0
RECURSIVE LabelValue(_)
LabelValue(label) ==
    IF label = <<>> THEN 0
    ELSE 26 * LabelValue(SubSeq(label, 1, Len(label) - 1)) + LetterValue(label[Len(label)])
ColumnIndexOf(label) == LabelValue(label) - 1

\* the original (1-based) numbers of the columns and rows of a sheet that
\* hold a value, ascending
SurvivingColumns(sheet) ==
    Pick([c \in 1..sheet.ncols |-> c],
         {c \in 1..sheet.ncols : \E r \in 1..sheet.nrows : <<r, c>> \in sheet.filled})
SurvivingRows(sheet) ==
    Pick([r \in 1..sheet.nrows |-> r],
         {r \in 1..sheet.nrows : \E c \in 1..sheet.ncols : <<r, c>> \in sheet.filled})

LastFields(line, n) == SubSeq(line, Len(line) - n + 1, Len(line))

\* the first line of table t labels the n = Len(cols) data columns, in
\* order, by the letters of the original column numbers cols
HeaderNamesColumns(t, cols) ==
    Len(cols) > 0 =>
    /\ Len(t) >= 1
    /\ Len(t[1]) >= Len(cols)
    /\ \A j \in 1..Len(cols) :
           /\ LastFields(t[1], Len(cols))[j] # <<>>
           /\ ColumnIndexOf(LastFields(t[1], Len(cols))[j]) = cols[j] - 1

\* every value of the lines after the first stands under the letter of the
\* column it was read from
ValuesUnderOwnLetter(t, cols) ==
    \A l \in 2..Len(t) : \A j \in 1..Len(cols) :
        LET label == LastFields(t[1], Len(cols))[j]
            field == LastFields(t[l], Len(cols))[j]
        IN  /\ Len(t[l]) >= Len(cols)
            /\ field = <<>> \/ (Len(field) > Len(label)
                                /\ SubSeq(field, 1, Len(label)) = label)

\* the last Len(rows) lines of table t start with the original row numbers
RowLabelsAre(t, rows) ==
    /\ Len(t) >= Len(rows)
    /\ \A j \in 1..Len(rows) :
           LET line == t[Len(t) - Len(rows) + j]
           IN  Len(line) >= 1 /\ line[1] = Str(rows[j])

HeaderNotSwitchedOff == Get(table_format_kwargs, "header", HeaderKeys).kind = "keys"
IndexNotSwitchedOff == Get(table_format_kwargs, "index", TRUE)

\* C2: with identifier preservation, every row that survives trimming is
\* emitted with the 1-based number it had in the untrimmed sheet.
C2_RowsKeepOriginalNumber ==
    (epc = "returned" /\ preserve_cell_identifiers /\ IndexNotSwitchedOff)
    => \A k \in 1..Len(bytestream) : RowLabelsAre(tables[k], SurvivingRows(bytestream[k]))

\* C3: with identifier preservation and csv, the header row names every
\* surviving column by the letter of its original column index, in order,
\* and the values stay under the letter of the column they came from.
C3_CsvHeaderKeepsOriginalLetters ==
    (epc = "returned" /\ preserve_cell_identifiers /\ table_format = "csv"
       /\ HeaderNotSwitchedOff)
    => \A k \in 1..Len(bytestream) :
           /\ HeaderNamesColumns(tables[k], SurvivingColumns(bytestream[k]))
           /\ ValuesUnderOwnLetter(tables[k], SurvivingColumns(bytestream[k]))

\* a sheet whose first column is empty and whose second is not
HasDroppedColumnBeforeKept(sheet) ==
    /\ Len(SurvivingColumns(sheet)) >= 1
    /\ SurvivingColumns(sheet)[1] > 1

C3_Witness ==
    /\ epc = "returned" /\ preserve_cell_identifiers /\ table_format = "csv"
    /\ table_format_kwargs = EmptyDict
    /\ Len(bytestream) = 2
    /\ HasDroppedColumnBeforeKept(bytestream[1])
    /\ tables[1][1] = << <<>>, <<"B">> >>

\* C7: with identifier preservation, index and header options given in
\* table_format_kwargs change nothing: the tables are those rendered
\* without them.
C7_ComputedFlagsTakePrecedence ==
    (epc = "returned" /\ preserve_cell_identifiers)
    => tables = ExtractedTables(bytestream, table_format, TRUE, EmptyDict)

\* C10: with identifier preservation and markdown, each sheet's header row
\* names that sheet's surviving columns by their original letters.
C10_MarkdownHeaderOfOwnSheet ==
    (epc = "returned" /\ preserve_cell_identifiers /\ table_format = "markdown"
       /\ HeaderNotSwitchedOff)
    => \A k \in 1..Len(bytestream) :
           HeaderNamesColumns(tables[k], SurvivingColumns(bytestream[k]))

-----------------------------------------------------------------------------
(* PandasExcelToDocument.run *)

\* the sheets of the workbooks given to run(): an empty one and one cell
RunSheets == {EmptySheet, [nrows |-> 1, ncols |-> 1, filled |-> {<<1, 1>>}]}

\* ByteStream.meta of the source at position j
Paths == <<"1.xlsx", "2.xlsx", "3.xlsx", "4.xlsx">>
SourceMetas(j) ==
    {[file_path |-> Paths[j]], [file_path |-> Paths[j], sheet_name |-> "from_source"]}

\* a source: a path or stream that cannot be read, bytes that are no
\* workbook, or a workbook of at most k sheets
SourcesAt(j, k) ==
    {[kind |-> "unreadable", meta |-> [file_path |-> Paths[j]], sheets |-> <<>>],
     [kind |-> "corrupt", meta |-> [file_path |-> Paths[j]], sheets |-> <<>>]}
    \cup {[kind |-> "workbook", meta |-> m, sheets |-> w] :
             m \in SourceMetas(j),
             w \in UNION {[1..n -> RunSheets] : n \in 1..(IF k < MaxSheets THEN k ELSE MaxSheets)}}

\* the batches of at most n sources from position j on, of at most k sheets in all
RECURSIVE Batches(_, _, _)
Batches(j, n, k) ==
    IF n = 0 THEN {<<>>}
    ELSE {<<>>} \cup
         UNION {{<<src>> \o rest : rest \in Batches(j + 1, n - 1, k - Len(src.sheets))} :
                src \in SourcesAt(j, k)}

CallerDicts == {EmptyDict, [sheet_name |-> "from_caller"]}

\* the meta argument for n sources: None, one dict, or a list of dicts whose
\* length is or is not the number of sources
MetaArgs(n) ==
    {[kind |-> "none", value |-> <<>>]}
    \cup {[kind |-> "dict", value |-> d] : d \in CallerDicts}
    \cup {[kind |-> "list", value |-> [j \in 1..len |-> d]] :
             d \in CallerDicts, len \in {n, n + 1}}

\* haystack's normalize_metadata: raises ValueError for a list of the wrong length
NormalizeRaises(m, n) == m.kind = "list" /\ Len(m.value) # n
normalize_metadata(m, n) ==
    IF m.kind = "none" THEN [j \in 1..n |-> EmptyDict]
    ELSE IF m.kind = "dict" THEN [j \in 1..n |-> m.value]
    ELSE m.value

\* merged_metadata = {**bytestream.meta, **metadata, **excel_metadata}
merged_metadata_sheet_first(bs_meta, metadata, excel_metadata) ==
    Merge(Merge(excel_metadata, bs_meta), metadata)
merged_metadata(bs_meta, metadata, excel_metadata) ==
    Merge(Merge(bs_meta, metadata), excel_metadata)

\* the documents appended for one converted source
DocumentsOf(src, metadata) ==
    [k \in 1..Len(src.sheets) |->
        [content |-> ExtractedTables(src.sheets, table_format, preserve_cell_identifiers,
                                     table_format_kwargs)[k],
         meta    |-> merged_metadata(src.meta, metadata, ExtractedMetadata(src.sheets)[k])]]

\* run() hands table_format_kwargs on to _extract_tables unread: the default
\* and one that switches index and header off
RunKwargs == {EmptyDict, [index |-> FALSE, header |-> HeaderOff]}

RunInit ==
    /\ table_format \in Formats
    /\ preserve_cell_identifiers \in BOOLEAN
    /\ table_format_kwargs \in RunKwargs
    /\ sources \in Batches(1, MaxSources, MaxRunSheets)
    /\ meta \in MetaArgs(Len(sources))
    /\ idx = 1
    /\ documents = <<>>
    /\ warnings = <<>>
    /\ pc = "start"
    /\ ExtractIdle /\ ColumnsIdle /\ LinksIdle

\* documents = []; meta_list = normalize_metadata(...) raises
NormalizeRaise ==
    /\ pc = "start"
    /\ NormalizeRaises(meta, Len(sources))
    /\ pc' = "raised"
    /\ UNCHANGED <<sources, meta, idx, documents, warnings>>
    /\ UNCHANGED <<excel_cfg, extract_vars, column_vars, link_vars>>

\* documents = []; meta_list = normalize_metadata(...)
NormalizeReturn ==
    /\ pc = "start"
    /\ ~NormalizeRaises(meta, Len(sources))
    /\ pc' = "loop"
    /\ UNCHANGED <<sources, meta, idx, documents, warnings>>
    /\ UNCHANGED <<excel_cfg, extract_vars, column_vars, link_vars>>

\* get_bytestream_from_source raises: warning, continue
SkipUnreadable ==
    /\ pc = "loop" /\ idx <= Len(sources)
    /\ sources[idx].kind = "unreadable"
    /\ warnings' = Append(warnings, [source |-> idx, message |-> "Could not read"])
    /\ idx' = idx + 1
    /\ UNCHANGED <<sources, meta, documents, pc>>
    /\ UNCHANGED <<excel_cfg, extract_vars, column_vars, link_vars>>

\* pd.read_excel raises inside _extract_tables: warning, continue
SkipCorrupt ==
    /\ pc = "loop" /\ idx <= Len(sources)
    /\ sources[idx].kind = "corrupt"
    /\ warnings' = Append(warnings, [source |-> idx, message |-> "Could not convert"])
    /\ idx' = idx + 1
    /\ UNCHANGED <<sources, meta, documents, pc>>
    /\ UNCHANGED <<excel_cfg, extract_vars, column_vars, link_vars>>

\* _extract_tables raises ValueError: the same except clause, warning, continue
SkipUnsupported ==
    /\ pc = "loop" /\ idx <= Len(sources)
    /\ sources[idx].kind = "workbook"
    /\ ExtractRaises(sources[idx].sheets, table_format)
    /\ warnings' = Append(warnings, [source |-> idx, message |-> "Could not convert"])
    /\ idx' = idx + 1
    /\ UNCHANGED <<sources, meta, documents, pc>>
    /\ UNCHANGED <<excel_cfg, extract_vars, column_vars, link_vars>>

\* one Document per table is appended
ConvertSource ==
    /\ pc = "loop" /\ idx <= Len(sources)
    /\ sources[idx].kind = "workbook"
    /\ ~ExtractRaises(sources[idx].sheets, table_format)
    /\ documents' = documents \o
           DocumentsOf(sources[idx], normalize_metadata(meta, Len(sources))[idx])
    /\ idx' = idx + 1
    /\ UNCHANGED <<sources, meta, warnings, pc>>
    /\ UNCHANGED <<excel_cfg, extract_vars, column_vars, link_vars>>

\* return {"documents": documents}
RunReturn ==
    /\ pc = "loop" /\ idx > Len(sources)
    /\ pc' = "returned"
    /\ UNCHANGED <<sources, meta, idx, documents, warnings>>
    /\ UNCHANGED <<excel_cfg, extract_vars, column_vars, link_vars>>

RunNext ==
    \/ NormalizeRaise
    \/ NormalizeReturn
    \/ SkipUnreadable
    \/ SkipCorrupt
    \/ SkipUnsupported
    \/ ConvertSource
    \/ RunReturn

Spec == RunInit /\ [][RunNext]_vars

\* the sources the loop has passed
Passed == 1..(idx - 1)

\* C1: with an unsupported table_format, a source that loads and parses as a
\* workbook makes run() raise; it is not skipped with a logged warning.
C1_UnsupportedFormatPropagates ==
    (pc \in {"loop", "returned"} /\ ~Supported(table_format))
    => \A j \in Passed : sources[j].kind # "workbook"

\* (file_path, sheet_name) of the documents run() owes for the first n sources
RECURSIVE OwedTags(_, _)
OwedTags(srcs, n) ==
    IF n = 0 THEN <<>>
    ELSE OwedTags(srcs, n - 1) \o
         (IF srcs[n].kind = "workbook"
          THEN [k \in 1..Len(srcs[n].sheets) |-> <<Paths[n], SheetNames[k]>>]
          ELSE <<>>)

\* C4: for a supported format the documents are, in source order, one per
\* sheet in sheet order of every source that was read and parsed, none for
\* the others, each with its own sheet's name as sheet_name.
C4_OneDocumentPerSheetInOrder ==
    (pc \in {"loop", "returned"} /\ Supported(table_format))
    => /\ Len(documents) = Len(OwedTags(sources, idx - 1))
       /\ \A d \in 1..Len(documents) :
              /\ DOMAIN documents[d].meta = {"file_path", "sheet_name"}
              /\ <<documents[d].meta["file_path"], documents[d].meta["sheet_name"]>>
                     = OwedTags(sources, idx - 1)[d]

\* a failed source, then a workbook with an empty sheet, both source and
\* caller metadata naming a sheet_name of their own
C4_Witness ==
    /\ pc = "returned" /\ Supported(table_format)
    /\ Len(sources) = 2
    /\ sources[1].kind = "corrupt"
    /\ sources[2].kind = "workbook"
    /\ sources[2].sheets[1] = EmptySheet
    /\ Len(sources[2].sheets) = 2
    /\ "sheet_name" \in DOMAIN sources[2].meta
    /\ meta.kind = "dict" /\ "sheet_name" \in DOMAIN meta.value
    /\ Len(documents) = 2
    /\ documents[2].meta["sheet_name"] = "Sheet2"

-----------------------------------------------------------------------------
(* ExternalLinkAdder.run *)

\* s[k:] for k >= 0
SliceFrom(s, k) == SubSeq(s, k + 1, Len(s))

\* sub in s
StartsAt(s, sub, p) == p + Len(sub) - 1 <= Len(s) /\ SubSeq(s, p, p + Len(sub) - 1) = sub
Contains(s, sub) == \E p \in 1..(Len(s) + 1) : StartsAt(s, sub, p)

IsDigit(ch) == \E k \in 1..10 : DigitChars[k] = ch

\* the length of the longest run of digits of s from position p on
RECURSIVE DigitRun(_, _)
DigitRun(s, p) == IF p <= Len(s) /\ IsDigit(s[p]) THEN 1 + DigitRun(s, p + 1) ELSE 0

ROW_OPEN == <<"{", "R", "o", "w", " ">>
ROW_CLOSE == <<"}">>

\* re.search(r"{Row (\d+)}", s): scanning from the left, the first position
\* where "{Row ", one or more digits and "}" follow each other; group(1) is
\* the digits; found is FALSE for None, when there is no such position
RECURSIVE SearchFrom(_, _)
SearchFrom(s, p) ==
    IF p > Len(s) THEN [found |-> FALSE]
    ELSE IF /\ StartsAt(s, ROW_OPEN, p)
            /\ DigitRun(s, p + Len(ROW_OPEN)) >= 1
            /\ StartsAt(s, ROW_CLOSE, p + Len(ROW_OPEN) + DigitRun(s, p + Len(ROW_OPEN)))
         THEN [found |-> TRUE,
               group1 |-> SubSeq(s, p + Len(ROW_OPEN),
                                  p + Len(ROW_OPEN) + DigitRun(s, p + Len(ROW_OPEN)) - 1)]
         ELSE SearchFrom(s, p + 1)
re_search_row(s) == SearchFrom(s, 1)

SPREADSHEETS == <<"s", "p", "r", "e", "a", "d", "s", "h", "e", "e", "t", "s">>

\* the (link_name, src_url) appended for a citation of document doc:
\* [raised |-> TRUE] stands for the KeyError of reference['answer_start_idx']
LinkOfSearchingWholeText(doc, reference, text) ==
    LET src_url == Get(doc.meta, "src_url", <<>>)
        link_name == Get(doc.meta, "file_name", <<>>)
        sheet_name == Get(doc.meta, "sheet_name", <<>>)
        sheet_id == Get(Get(doc.meta, "sheet_name_id_map", EmptyDict), sheet_name, <<>>)
        name2 == link_name \o <<"#">> \o sheet_name
        url2 == src_url \o <<"?", "g", "i", "d", "=">> \o sheet_id \o <<"#", "g", "i", "d", "=">> \o sheet_id
    IN  IF ~Contains(src_url, SPREADSHEETS)
        THEN [raised |-> FALSE, link |-> <<link_name, src_url>>]
        ELSE IF "answer_start_idx" \notin DOMAIN reference
        THEN [raised |-> TRUE]
        ELSE LET match == re_search_row(text)
             IN  IF ~match.found
                 THEN [raised |-> FALSE, link |-> <<name2, url2>>]
                 ELSE [raised |-> FALSE,
                       link |-> <<name2 \o <<"!">> \o match.group1 \o <<":">> \o match.group1,
                                  url2 \o <<"&", "r", "a", "n", "g", "e", "=">> \o match.group1 \o <<":">>
                                       \o match.group1>>]
LinkOf(doc, reference, text) ==
    LET src_url == Get(doc.meta, "src_url", <<>>)
        link_name == Get(doc.meta, "file_name", <<>>)
        sheet_name == Get(doc.meta, "sheet_name", <<>>)
        sheet_id == Get(Get(doc.meta, "sheet_name_id_map", EmptyDict), sheet_name, <<>>)
        name2 == link_name \o <<"#">> \o sheet_name
        url2 == src_url \o <<"?", "g", "i", "d", "=">> \o sheet_id \o <<"#", "g", "i", "d", "=">> \o sheet_id
    IN  IF ~Contains(src_url, SPREADSHEETS)
        THEN [raised |-> FALSE, link |-> <<link_name, src_url>>]
        ELSE IF "answer_start_idx" \notin DOMAIN reference
        THEN [raised |-> TRUE]
        ELSE LET match == re_search_row(SliceFrom(text, reference["answer_start_idx"]))
             IN  IF ~match.found
                 THEN [raised |-> FALSE, link |-> <<name2, url2>>]
                 ELSE [raised |-> FALSE,
                       link |-> <<name2 \o <<"!">> \o match.group1 \o <<":">> \o match.group1,
                                  url2 \o <<"&", "r", "a", "n", "g", "e", "=">> \o match.group1 \o <<":">>
                                       \o match.group1>>]

\* for document in answer.documents: if document.id == document_id: ...; break
\* 0 when no document matches
FirstMatch(docs, document_id) ==
    IF \E j \in 1..Len(docs) : docs[j].id = document_id
    THEN CHOOSE j \in 1..Len(docs) :
             /\ docs[j].id = document_id
             /\ \A h \in 1..(j - 1) : docs[h].id # document_id
    ELSE 0

\* the loop over the references from position k on, links being
\* external_links so far; [raised |-> TRUE] stands for a KeyError
RECURSIVE ReferenceLoop(_, _, _, _)
ReferenceLoop(ans, references, k, links) ==
    IF k > Len(references) THEN [raised |-> FALSE, links |-> links]
    ELSE IF "document_id" \notin DOMAIN references[k] THEN [raised |-> TRUE]
    ELSE LET j == FirstMatch(ans.documents, references[k]["document_id"])
         IN  IF j = 0 THEN ReferenceLoop(ans, references, k + 1, links)
             ELSE LET got == LinkOf(ans.documents[j], references[k], ans.data)
                  IN  IF got.raised THEN [raised |-> TRUE]
                      ELSE ReferenceLoop(ans, references, k + 1, Append(links, got.link))

\* if references := answer.meta.get('_references', None): an absent and an
\* empty list are both skipped
ResolvedLinks(ans) ==
    LET references == Get(ans.meta, "_references", <<>>)
    IN  ReferenceLoop(ans, references, 1, <<>>)

\* "\n\n[[Ext {i+1}]{link_name}]({external_link})" for enumerate's 0-based i
FootnoteNumberedFromZero(k, link) ==
    <<"\n", "\n", "[", "[", "E", "x", "t", " ">> \o Str(k) \o <<"]">> \o link[1] \o <<"]", "(">> \o link[2] \o <<")">>
Footnote(k, link) ==
    <<"\n", "\n", "[", "[", "E", "x", "t", " ">> \o Str(k + 1) \o <<"]">> \o link[1] \o <<"]", "(">> \o link[2] \o <<")">>

\* external_link_str
ExternalLinkStr(links) == Concat([k \in 1..Len(links) |-> Footnote(k - 1, links[k])])

-----------------------------------------------------------------------------
(* The answers given to ExternalLinkAdder.run *)

Texts == {<<"x", "{", "R", "o", "w", " ", "5", "}", "y", "{", "R", "o", "w", " ", "1", "2", "}">>,
          <<"{", "R", "o", "w", " ", "7", "}", "x", "{", "R", "o", "w", " ", "}">>}

PLAIN_URL == <<"h", "t", "t", "p", ":", "/", "/", "x", "/", "d", "o", "c", ".", "p", "d", "f">>
SHEET_URL == <<"h", "t", "t", "p", ":", "/", "/", "s", "/", "s", "p", "r", "e", "a", "d", "s", "h", "e", "e", "t", "s", "/", "d", "/", "X">>
SHEET1 == <<"S", "h", "e", "e", "t", "1">>

DocMetaPlain == [src_url |-> PLAIN_URL, file_name |-> <<"d", "o", "c", ".", "p", "d", "f">>]
DocMetaSheet ==
    [src_url |-> SHEET_URL, file_name |-> <<"B", "o", "o", "k">>, sheet_name |-> SHEET1,
     sheet_name_id_map |-> (SHEET1 :> <<"0">>)]
DocMetaSheetBare == [src_url |-> SHEET_URL]

AnswerDocs ==
    {[id |-> "d1", meta |-> DocMetaPlain],
     [id |-> "d1", meta |-> EmptyDict],
     [id |-> "d2", meta |-> DocMetaSheet],
     [id |-> "d2", meta |-> DocMetaSheetBare]}

\* a citation: document_id and answer_start_idx, either of which may be missing
References ==
    {Merge(a, b) :
        a \in {EmptyDict} \cup {[document_id |-> d] : d \in {"d1", "d2"}},
        b \in {EmptyDict} \cup {[answer_start_idx |-> k] : k \in {0, 2}}}

SeqsUpTo(S, n) == UNION {[1..k -> S] : k \in 0..n}

Answers ==
    {[data |-> text, meta |-> m, documents |-> docs] :
        text \in Texts,
        m \in {EmptyDict} \cup {[_references |-> refs] : refs \in SeqsUpTo(References, MaxRefs)},
        docs \in SeqsUpTo(AnswerDocs, MaxDocs)}

LinksInit ==
    /\ processed = 0
    /\ answer = None
    /\ data = <<>>
    /\ external_links = <<>>
    /\ lpc = "head"
    /\ ExtractIdle /\ RunIdle /\ ColumnsIdle
    /\ table_format = "csv" /\ preserve_cell_identifiers = FALSE
    /\ table_format_kwargs = EmptyDict

\* for answer in answers: external_links = []
FetchAnswer ==
    /\ lpc = "head"
    /\ processed < MaxAnswers
    /\ \E a \in Answers :
           /\ answer' = a
           /\ data' = a.data
    /\ external_links' = <<>>
    /\ lpc' = "body"
    /\ UNCHANGED processed
    /\ UNCHANGED <<excel_cfg, extract_vars, run_vars, column_vars>>

\* the body of the loop for one answer: the references are resolved and
\* answer.data is extended when there are links
ProcessAnswer ==
    /\ lpc = "body"
    /\ ~ResolvedLinks(answer).raised
    /\ external_links' = ResolvedLinks(answer).links
    /\ data' = IF ResolvedLinks(answer).links # <<>>
               THEN data \o ExternalLinkStr(ResolvedLinks(answer).links)
               ELSE data
    /\ lpc' = "tail"
    /\ UNCHANGED <<processed, answer>>
    /\ UNCHANGED <<excel_cfg, extract_vars, run_vars, column_vars>>

\* reference['document_id'] or reference['answer_start_idx'] raises KeyError,
\* which nothing in run() catches
RaiseKeyError ==
    /\ lpc = "body"
    /\ ResolvedLinks(answer).raised
    /\ lpc' = "raised"
    /\ UNCHANGED <<processed, answer, data, external_links>>
    /\ UNCHANGED <<excel_cfg, extract_vars, run_vars, column_vars>>

\* the loop goes on to the next answer; the one handled stays in the list as
\* it is and is not followed further
NextAnswer ==
    /\ lpc = "tail"
    /\ processed' = processed + 1
    /\ answer' = None
    /\ data' = <<>>
    /\ external_links' = <<>>
    /\ lpc' = "head"
    /\ UNCHANGED <<excel_cfg, extract_vars, run_vars, column_vars>>

\* return {"answers": answers}, the batch being of any length up to MaxAnswers
ReturnAnswers ==
    /\ lpc = "head"
    /\ lpc' = "returned"
    /\ UNCHANGED <<processed, answer, data, external_links>>
    /\ UNCHANGED <<excel_cfg, extract_vars, run_vars, column_vars>>

LinksNext == FetchAnswer \/ ProcessAnswer \/ RaiseKeyError \/ NextAnswer \/ ReturnAnswers

SpecLinks == LinksInit /\ [][LinksNext]_vars

-----------------------------------------------------------------------------
(* What the claims about ExternalLinkAdder.run speak of *)

CitationsOf(ans) == Get(ans.meta, "_references", <<>>)

\* a citation is matched when some document of the answer has its document_id
IsMatched(ans, reference) ==
    /\ "document_id" \in DOMAIN reference
    /\ \E j \in 1..Len(ans.documents) : ans.documents[j].id = reference["document_id"]

\* the matched citations of an answer, in citation-list order
MatchedCitations(ans) ==
    Pick(CitationsOf(ans),
         {k \in 1..Len(CitationsOf(ans)) : IsMatched(ans, CitationsOf(ans)[k])})

\* the footnote numbered n (from 1) of a (link_name, url) pair
NumberedFootnote(n, link) ==
    <<"\n", "\n", "[", "[", "E", "x", "t", " ">> \o Str(n) \o <<"]">> \o link[1]
        \o <<"]", "(">> \o link[2] \o <<")">>

\* C5: the final text of a processed answer is its original text followed by
\* one footnote per matched citation, in citation order, numbered 1..k
\* without gaps; with no matched citation the text is unchanged.
C5_TextIsOriginalPlusNumberedFootnotes ==
    lpc = "tail"
    => /\ Len(external_links) = Len(MatchedCitations(answer))
       /\ data = answer.data \o
              Concat([n \in 1..Len(external_links) |-> NumberedFootnote(n, external_links[n])])
       /\ SubSeq(data, 1, Len(answer.data)) = answer.data

\* two citations of the same document, in the first answer of a batch
C5_Witness ==
    /\ lpc = "tail"
    /\ Len(CitationsOf(answer)) = 2
    /\ CitationsOf(answer)[1] = CitationsOf(answer)[2]
    /\ Len(external_links) = 2
    /\ external_links[1] = external_links[2]
    /\ Len(data) > Len(answer.data)
    /\ processed = 1

\* C6: ExternalLinkAdder.run never raises.
C6_NeverRaises == lpc # "raised"

\* position p (1-based) of text starts a "{Row <digits>}" marker of n digits
IsRowMarker(text, p, n) ==
    /\ n >= 1
    /\ p + 5 + n <= Len(text)
    /\ SubSeq(text, p, p + 4) = ROW_OPEN
    /\ \A q \in (p + 5)..(p + 4 + n) : IsDigit(text[q])
    /\ text[p + 5 + n] = "}"

\* the markers that start at or after the 0-based offset start
MarkersFrom(text, start) ==
    {pn \in ((start + 1)..Len(text)) \X (1..Len(text)) : IsRowMarker(text, pn[1], pn[2])}

FirstMarker(text, start) ==
    CHOOSE pn \in MarkersFrom(text, start) :
        \A other \in MarkersFrom(text, start) : pn[1] <= other[1]

RowOf(text, pn) == SubSeq(text, pn[1] + 5, pn[1] + 4 + pn[2])

\* the (link_name, url) the claim gives a matched citation of document doc
ClaimedLink(doc, reference, text) ==
    LET file_name == Get(doc.meta, "file_name", <<>>)
        src_url == Get(doc.meta, "src_url", <<>>)
        sheet_name == Get(doc.meta, "sheet_name", <<>>)
        map == Get(doc.meta, "sheet_name_id_map", EmptyDict)
        id == IF sheet_name \in DOMAIN map THEN map[sheet_name] ELSE <<>>
        name == file_name \o <<"#">> \o sheet_name
        url == src_url \o <<"?", "g", "i", "d", "=">> \o id \o <<"#", "g", "i", "d", "=">> \o id
        start == reference["answer_start_idx"]
    IN  IF ~(\E p \in 1..Len(src_url) : StartsAt(src_url, SPREADSHEETS, p))
        THEN <<file_name, src_url>>
        ELSE IF MarkersFrom(text, start) = {}
        THEN <<name, url>>
        ELSE LET r == RowOf(text, FirstMarker(text, start))
             IN  <<name \o <<"!">> \o r \o <<":">> \o r,
                   url \o <<"&", "r", "a", "n", "g", "e", "=">> \o r \o <<":">> \o r>>

\* the first document of the answer with the citation's document_id
CitedDocument(ans, reference) ==
    ans.documents[CHOOSE j \in 1..Len(ans.documents) :
                      /\ ans.documents[j].id = reference["document_id"]
                      /\ \A h \in 1..(j - 1) :
                             ans.documents[h].id # reference["document_id"]]

\* C8: the link of a matched citation is (file_name, src_url); when src_url
\* contains "spreadsheets" it is extended by "#sheet_name" and
\* "?gid=id#gid=id", and by "!r:r" and "&range=r:r" exactly when the original
\* text holds a "{Row r}" marker at or after answer_start_idx, r being the
\* first such marker's digits.
C8_LinkOfMatchedCitation ==
    lpc = "tail"
    => /\ Len(external_links) = Len(MatchedCitations(answer))
       /\ \A n \in 1..Len(external_links) :
              external_links[n] =
                  ClaimedLink(CitedDocument(answer, MatchedCitations(answer)[n]),
                              MatchedCitations(answer)[n], answer.data)

\* a spreadsheet citation whose offset lies past the first marker of the text
C8_Witness ==
    /\ lpc = "tail"
    /\ Len(external_links) = 1
    /\ MatchedCitations(answer)[1] = [document_id |-> "d2", answer_start_idx |-> 2]
    /\ external_links[1][1] = <<"B", "o", "o", "k", "#", "S", "h", "e", "e", "t", "1", "!", "1", "2", ":", "1", "2">>
    /\ Cardinality(MarkersFrom(answer.data, 0)) = 2

-----------------------------------------------------------------------------
(* What the claim about _generate_excel_column_names speaks of *)

\* label is the bijective base-26 numeral of the 0-based index k
IsLabelOf(label, k) ==
    /\ label # <<>>
    /\ \A q \in 1..Len(label) : LetterValue(label[q]) >= 1
    /\ ColumnIndexOf(label) = k

ColumnLabelsInv ==
    /\ Len(result) = i
    /\ i <= n_cols
    /\ num >= -1
    /\ i > 0 => IsLabelOf(result[i], i - 1)
    /\ cpc = "return" =>
          /\ Len(result) = n_cols
          /\ \A k \in 1..n_cols : IsLabelOf(result[k], k - 1)
          /\ \A k \in 1..(n_cols - 1) : result[k] # result[k + 1]
          /\ n_cols >= 28 =>
                /\ result[1] = <<"A">>
                /\ result[26] = <<"Z">>
                /\ result[27] = <<"A", "A">>
                /\ result[28] = <<"A", "B">>
          /\ n_cols >= 703 =>
                /\ result[702] = <<"Z", "Z">>
                /\ result[703] = <<"A", "A", "A">>

\* every iteration of the while loop lowers num, which is never below -1
WhileLowersNum ==
    (cpc = "while" /\ cpc' = "while" /\ num >= 0) => (num' < num /\ num' >= -1)

\* C9: _generate_excel_column_names(n) returns n labels, the i-th the
\* bijective base-26 numeral of i (so pairwise distinct), and the while loop
\* ends for every index.
C9_ColumnNames == []ColumnLabelsInv /\ [][WhileLowersNum]_vars

C9_Witness ==
    /\ cpc = "return"
    /\ n_cols = 703
    /\ result[703] = <<"A", "A", "A">>

====
